---- MODULE Spec2Model ----
(***************************************************************************)
(* Model of mac-notification-sys' data layer (src/src/data.rs):            *)
(*   - NotificationOptions: the constructor and its seven builder setters, *)
(*   - NotificationOptions::to_dictionary: the encoder into the flat       *)
(*     NSDictionary<NSString, NSString> handed to the native bridge,       *)
(*   - NotificationResponse::from_dictionary: the decoder of the native    *)
(*     activation dictionary.                                              *)
(* Strings whose content the encoder builds (labels, joined actions, the   *)
(* printed timestamp) are sequences of one-character strings, so that      *)
(* joining and printing are computed and not assumed.  Dictionary keys are *)
(* TLA+ strings.                                                           *)
(***************************************************************************)
EXTENDS Integers, Sequences, FiniteSets, TLC

VARIABLES
    opts,       \* Spec: the NotificationOptions under construction
    calls,      \* Spec: history of the setter calls: per setter the argument of
                \* its latest call, and whether some call overwrote a set field
    dict,       \* Spec: the NSDictionary returned by to_dictionary
    pc,         \* Spec: "build" while setters run, "encoded" after to_dictionary
    event,      \* SpecDecode: the activation dictionary given to from_dictionary
    response,   \* SpecDecode: the NotificationResponse it returned
    thread,     \* SpecSend: per calling thread, its position and data
    token       \* SpecSend: holder of the process-wide serialization token

vars == <<opts, calls, dict, pc, event, response, thread, token>>

-----------------------------------------------------------------------------
(* Bounds of the model *)

\* Longest list of dropdown actions that is enumerated.
MaxActions == 2

\* Threads of the process that call send concurrently.
NumThreads == 2

-----------------------------------------------------------------------------
(* Option<T> *)

None == [tag |-> "None"]

Some(v) == [tag |-> "Some", val |-> v]

\* Option::unwrap_or (and unwrap_or_default for &str, whose default is "").
unwrap_or(o, d) == IF o.tag = "Some" THEN o.val ELSE d

-----------------------------------------------------------------------------
(* String literals of the source, as character sequences *)

EmptyStr == << >>

YesStr == <<"y", "e", "s">>

MuteStr == <<"_", "m", "u", "t", "e">>

CommaStr == <<",">>

-----------------------------------------------------------------------------
(* Input domains *)

\* Labels a caller passes for buttons and dropdown options; one option label
\* holds a comma and one is empty.
ButtonLabels == {EmptyStr, <<"O", "k">>}

ActionLabels == {EmptyStr, <<"A">>, <<"b", ",", "c">>}

ActionLists == UNION {[1..n -> ActionLabels] : n \in 0..MaxActions}

\* enum MainButton
SingleAction(l) == [tag |-> "SingleAction", label |-> l]

DropdownActions(l, as) == [tag |-> "DropdownActions", label |-> l, actions |-> as]

Response(p) == [tag |-> "Response", label |-> p]

MainButtons ==
    {SingleAction(l) : l \in ButtonLabels}
    \cup {DropdownActions(<<"P", "i", "c", "k">>, as) : as \in ActionLists}
    \cup {Response(p) : p \in {EmptyStr, <<"T", "y", "p", "e">>}}

\* Opaque strings for close_button and group_id, and file paths for app_icon
\* and content_image.
OpaqueStrs == {EmptyStr, <<"x">>}

PathStrs == {<<"/", "i">>}

\* f64 timestamps: finite values n or n + 0.5 with a sign, and the non-finite
\* values a caller can pass.
Finite(neg, int, half) == [kind |-> "fin", neg |-> neg, int |-> int, half |-> half]

NaN == [kind |-> "nan", neg |-> FALSE, int |-> 0, half |-> FALSE]

Infinity(neg) == [kind |-> "inf", neg |-> neg, int |-> 0, half |-> FALSE]

DeliveryDates ==
    {<<Finite(FALSE, 1700000000, FALSE), TRUE>>,
     <<Finite(FALSE, 1700000000, FALSE), FALSE>>,
     <<Finite(FALSE, 10, TRUE), TRUE>>,
     <<Finite(TRUE, 3, FALSE), FALSE>>,
     <<NaN, TRUE>>,
     <<Infinity(TRUE), FALSE>>}

\* Sound names a caller passes: one known, one unknown, the empty name and
\* the sentinel itself.
BlowStr == <<"B", "l", "o", "w">>

SoundNames == {BlowStr, <<"N", "o", "p", "e">>, EmptyStr, MuteStr}

-----------------------------------------------------------------------------
(* crate::utilities::check_sound *)

\* The platform's notification sound names.
KnownSounds == {BlowStr, <<"P", "i", "n", "g">>}

check_sound(sound) == sound \in KnownSounds

-----------------------------------------------------------------------------
(* struct NotificationOptions and its builder *)

Fields ==
    {"main_button", "close_button", "app_icon", "content_image", "group_id",
     "delivery_date", "sound"}

\* NotificationOptions::new
new ==
    [main_button |-> None, close_button |-> None, app_icon |-> None,
     content_image |-> None, group_id |-> None, delivery_date |-> None,
     sound |-> None]

\* Mutant of close_button: the value lands in the neighbouring field.
close_button_misplaced(self, v) == [self EXCEPT !.app_icon = Some(v)]

main_button(self, v) == [self EXCEPT !.main_button = Some(v)]

close_button(self, v) == [self EXCEPT !.close_button = Some(v)]

app_icon(self, v) == [self EXCEPT !.app_icon = Some(v)]

content_image(self, v) == [self EXCEPT !.content_image = Some(v)]

group_id(self, v) == [self EXCEPT !.group_id = Some(v)]

\* delivery_date(delivery_date: f64, synchronous: bool); v is the pair.
delivery_date(self, v) == [self EXCEPT !.delivery_date = Some(v)]

sound(self, v) == [self EXCEPT !.sound = Some(v)]

-----------------------------------------------------------------------------
(* NotificationOptions::to_dictionary *)

DigitChars == <<"0", "1", "2", "3", "4", "5", "6", "7", "8", "9">>

RECURSIVE NatToStr(_)
NatToStr(n) ==
    IF n < 10 THEN <<DigitChars[n + 1]>>
    ELSE NatToStr(n \div 10) \o <<DigitChars[(n % 10) + 1]>>

\* f64::to_string (Display): no exponent, no trailing ".0", "NaN", "inf", "-inf".
f64_to_string(x) ==
    CASE x.kind = "nan" -> <<"N", "a", "N">>
      [] x.kind = "inf" ->
            (IF x.neg THEN <<"-">> ELSE << >>) \o <<"i", "n", "f">>
      [] OTHER ->
            (IF x.neg THEN <<"-">> ELSE << >>)
            \o NatToStr(x.int)
            \o (IF x.half THEN <<".", "5">> ELSE << >>)

\* Mutant of join: the separator also follows the last element.
RECURSIVE join_trailing(_, _)
join_trailing(strs, sep) ==
    IF Len(strs) = 0 THEN EmptyStr
    ELSE strs[1] \o sep \o join_trailing(Tail(strs), sep)

\* [&str]::join(sep)
RECURSIVE join(_, _)
join(strs, sep) ==
    IF Len(strs) = 0 THEN EmptyStr
    ELSE IF Len(strs) = 1 THEN strs[1]
    ELSE strs[1] \o sep \o join(Tail(strs), sep)

\* Mutant of MainButtonFields: the Response arm forgets the response flag.
MainButtonFields_noflag(self) ==
    LET mb == self.main_button IN
    IF mb.tag = "Some" THEN
        [label |-> mb.val.label,
         actions |-> IF mb.val.tag = "DropdownActions" THEN mb.val.actions ELSE << >>,
         is_response |-> FALSE]
    ELSE [label |-> EmptyStr, actions |-> << >>, is_response |-> FALSE]

\* let (main_button_label, actions, is_response) = match &self.main_button { .. }
MainButtonFields(self) ==
    LET mb == self.main_button IN
    IF mb.tag = "Some" THEN
        CASE mb.val.tag = "SingleAction" ->
                [label |-> mb.val.label, actions |-> << >>, is_response |-> FALSE]
          [] mb.val.tag = "DropdownActions" ->
                [label |-> mb.val.label, actions |-> mb.val.actions,
                 is_response |-> FALSE]
          [] mb.val.tag = "Response" ->
                [label |-> mb.val.label, actions |-> << >>, is_response |-> TRUE]
    ELSE [label |-> EmptyStr, actions |-> << >>, is_response |-> FALSE]

\* match self.delivery_date { Some((delivery_date, _)) => delivery_date.to_string(), _ => String::new() }
DeliveryDateValue(self) ==
    IF self.delivery_date.tag = "Some"
    THEN f64_to_string(self.delivery_date.val[1])
    ELSE EmptyStr

\* Mutant of SynchronousValue: "yes" for every scheduled notification.
SynchronousValue_anydate(self) ==
    IF self.delivery_date.tag = "Some" THEN YesStr ELSE EmptyStr

\* match self.delivery_date { Some((_, true)) => "yes", _ => "" }
SynchronousValue(self) ==
    IF self.delivery_date.tag = "Some" /\ self.delivery_date.val[2] = TRUE
    THEN YesStr
    ELSE EmptyStr

\* Mutant of SoundValue: the match guard is missing.
SoundValue_unchecked(self) ==
    IF self.sound.tag = "Some" THEN self.sound.val ELSE MuteStr

\* match self.sound { Some(sound) if check_sound(sound) => sound, _ => "_mute" }
SoundValue(self) ==
    IF self.sound.tag = "Some" /\ check_sound(self.sound.val)
    THEN self.sound.val
    ELSE MuteStr

DictKeys ==
    <<"mainButtonLabel", "actions", "closeButtonLabel", "appIcon", "contentImage",
      "groupID", "response", "deliveryDate", "synchronous", "sound">>

\* Mutant of from_keys_and_objects: the objects are paired in reverse order.
from_keys_and_objects_reversed(keys, vals) ==
    [k \in {keys[i] : i \in 1..Len(keys)} |->
        vals[Len(keys) + 1 - (CHOOSE i \in 1..Len(keys) : keys[i] = k)]]

\* NSDictionary::from_keys_and_objects: the i-th key maps to the i-th object.
from_keys_and_objects(keys, vals) ==
    [k \in {keys[i] : i \in 1..Len(keys)} |->
        vals[CHOOSE i \in 1..Len(keys) : keys[i] = k]]

to_dictionary(self) ==
    LET mbf == MainButtonFields(self)
        vals ==
            <<mbf.label,
              join(mbf.actions, CommaStr),
              unwrap_or(self.close_button, EmptyStr),
              unwrap_or(self.app_icon, EmptyStr),
              unwrap_or(self.content_image, EmptyStr),
              unwrap_or(self.group_id, EmptyStr),
              IF mbf.is_response THEN YesStr ELSE EmptyStr,
              DeliveryDateValue(self),
              SynchronousValue(self),
              SoundValue(self)>>
    IN from_keys_and_objects(DictKeys, vals)

-----------------------------------------------------------------------------
(* NotificationResponse::from_dictionary *)

\* enum NotificationResponse
ResponseNone == [tag |-> "None"]

ActionButton(v) == [tag |-> "ActionButton", val |-> v]

CloseButton(v) == [tag |-> "CloseButton", val |-> v]

Click == [tag |-> "Click"]

Reply(v) == [tag |-> "Reply", val |-> v]

\* NSDictionary::object_for
object_for(dictionary, key) ==
    IF key \in DOMAIN dictionary THEN Some(dictionary[key]) ELSE None

\* match dictionary.object_for("activationValue") { Some(str) => str, None => "" }
ActivationValue(dictionary) ==
    LET o == object_for(dictionary, "activationValue") IN
    IF o.tag = "Some" THEN o.val ELSE EmptyStr

\* Mutant of from_dictionary: the closeClicked arm was copied from the
\* actionClicked arm and builds the same variant.
from_dictionary_copied_arm(dictionary) ==
    LET activation_type == object_for(dictionary, "activationType") IN
    CASE activation_type = Some("actionClicked") ->
            ActionButton(ActivationValue(dictionary))
      [] activation_type = Some("closeClicked") ->
            ActionButton(ActivationValue(dictionary))
      [] activation_type = Some("replied") ->
            Reply(ActivationValue(dictionary))
      [] activation_type = Some("contentsClicked") -> Click
      [] OTHER -> ResponseNone

\* Mutant of from_dictionary: the catch-all arm reports a click.
from_dictionary_default_click(dictionary) ==
    LET activation_type == object_for(dictionary, "activationType") IN
    CASE activation_type = Some("actionClicked") ->
            ActionButton(ActivationValue(dictionary))
      [] activation_type = Some("closeClicked") ->
            CloseButton(ActivationValue(dictionary))
      [] activation_type = Some("replied") ->
            Reply(ActivationValue(dictionary))
      [] OTHER -> Click

from_dictionary(dictionary) ==
    LET activation_type == object_for(dictionary, "activationType") IN
    CASE activation_type = Some("actionClicked") ->
            ActionButton(ActivationValue(dictionary))
      [] activation_type = Some("closeClicked") ->
            CloseButton(ActivationValue(dictionary))
      [] activation_type = Some("replied") ->
            Reply(ActivationValue(dictionary))
      [] activation_type = Some("contentsClicked") -> Click
      [] OTHER -> ResponseNone

\* Activation dictionaries the native layer may hand back: activationType
\* absent, one of the four known values, or another string; activationValue
\* absent or a string; possibly a key the decoder does not read.
ActivationTypes ==
    {"actionClicked", "closeClicked", "replied", "contentsClicked",
     "", "ActionClicked", "dismissed"}

ActivationValues == {EmptyStr, <<"O", "k">>, <<"a", ",", "b">>, YesStr}

MakeEvent(ty, val, extra) ==
    LET dom == (IF ty.tag = "Some" THEN {"activationType"} ELSE {})
               \cup (IF val.tag = "Some" THEN {"activationValue"} ELSE {})
               \cup (IF extra THEN {"deliveredAt"} ELSE {})
    IN [k \in dom |->
            CASE k = "activationType" -> ty.val
              [] k = "activationValue" -> val.val
              [] OTHER -> << >>]

Events ==
    {MakeEvent(ty, val, extra) :
        ty \in {None} \cup {Some(x) : x \in ActivationTypes},
        val \in {None} \cup {Some(x) : x \in ActivationValues},
        extra \in BOOLEAN}

-----------------------------------------------------------------------------
(* Spec: a caller builds NotificationOptions and encodes them *)

NoDict == << >>

Pending == [tag |-> "Pending"]

NoThreads == << >>

NoCalls == [last |-> [f \in Fields |-> None], overwrote |-> FALSE]

Init ==
    /\ opts = new
    /\ calls = NoCalls
    /\ dict = NoDict
    /\ pc = "build"
    /\ event = << >>
    /\ response = Pending
    /\ thread = NoThreads
    /\ token = None

\* A setter call: the options change as the setter says, and the call is logged.
Called(field, v, result) ==
    /\ opts' = result
    /\ calls' = [last |-> [calls.last EXCEPT ![field] = Some(v)],
                 overwrote |-> calls.overwrote \/ calls.last[field] # None]
    /\ dict' = NoDict
    /\ pc' = "build"
    /\ UNCHANGED <<event, response, thread, token>>

SetMainButton == \E v \in MainButtons : Called("main_button", v, main_button(opts, v))

SetCloseButton == \E v \in OpaqueStrs : Called("close_button", v, close_button(opts, v))

SetAppIcon == \E v \in PathStrs : Called("app_icon", v, app_icon(opts, v))

SetContentImage == \E v \in PathStrs : Called("content_image", v, content_image(opts, v))

SetGroupId == \E v \in OpaqueStrs : Called("group_id", v, group_id(opts, v))

SetDeliveryDate == \E v \in DeliveryDates : Called("delivery_date", v, delivery_date(opts, v))

SetSound == \E v \in SoundNames : Called("sound", v, sound(opts, v))

Encode ==
    /\ pc = "build"
    /\ dict' = to_dictionary(opts)
    /\ pc' = "encoded"
    /\ UNCHANGED <<opts, calls, event, response, thread, token>>

\* The caller drops the options and constructs new ones.
New ==
    /\ pc = "encoded"
    /\ opts' = new
    /\ calls' = NoCalls
    /\ dict' = NoDict
    /\ pc' = "build"
    /\ UNCHANGED <<event, response, thread, token>>

Next ==
    \/ SetMainButton
    \/ SetCloseButton
    \/ SetAppIcon
    \/ SetContentImage
    \/ SetGroupId
    \/ SetDeliveryDate
    \/ SetSound
    \/ Encode
    \/ New

Spec == Init /\ [][Next]_vars

-----------------------------------------------------------------------------
(* Properties of the encoder and the builder, checked under Spec *)

Encoded == pc = "encoded"

IsSet(f) == opts[f].tag = "Some"

\* C1: encode derives (mainButtonLabel, actions, response) from main_button
\* alone: absent gives ("", "", ""), SingleAction(l) gives (l, "", ""),
\* DropdownActions(l, as) gives (l, as joined, ""), Response(p) gives
\* (p, "", "yes"); response is "yes" exactly for the Response variant, and then
\* actions is "".
C1_MainButtonTriple ==
    Encoded =>
        LET mb == opts.main_button
            triple == <<dict["mainButtonLabel"], dict["actions"], dict["response"]>>
        IN /\ mb = None => triple = <<EmptyStr, EmptyStr, EmptyStr>>
           /\ \A l \in ButtonLabels :
                mb = Some(SingleAction(l)) => triple = <<l, EmptyStr, EmptyStr>>
           /\ (mb # None /\ mb.val.tag = "DropdownActions") =>
                triple = <<mb.val.label, join(mb.val.actions, CommaStr), EmptyStr>>
           /\ (mb # None /\ mb.val.tag = "Response") =>
                triple = <<mb.val.label, EmptyStr, YesStr>>
           /\ (dict["response"] = YesStr) <=> (mb # None /\ mb.val.tag = "Response")
           /\ dict["response"] \in {YesStr, EmptyStr}
           /\ dict["response"] = YesStr => dict["actions"] = EmptyStr

\* A Response main button, with other fields set too, has been encoded.
C1_Witness ==
    /\ Encoded
    /\ opts.main_button = Some(Response(<<"T", "y", "p", "e">>))
    /\ IsSet("delivery_date") /\ IsSet("sound") /\ IsSet("close_button")
    /\ dict["mainButtonLabel"] = <<"T", "y", "p", "e">>
    /\ dict["response"] = YesStr

\* Where the i-th label starts in the joined string (0-based offset).
RECURSIVE Offset(_, _)
Offset(as, i) == IF i = 1 THEN 0 ELSE Offset(as, i - 1) + Len(as[i - 1]) + 1

\* s is the labels of as in order, one comma between neighbours, nothing else.
IsCommaSeparated(s, as) ==
    LET n == Len(as) IN
    /\ Len(s) = IF n = 0 THEN 0 ELSE Offset(as, n) + Len(as[n])
    /\ \A i \in 1..n :
        /\ SubSeq(s, Offset(as, i) + 1, Offset(as, i) + Len(as[i])) = as[i]
        /\ i < n => s[Offset(as, i) + Len(as[i]) + 1] = ","

\* C2: for DropdownActions(label, actions) the actions field is the option
\* labels in list order separated by single commas, with no leading or
\* trailing separator (empty list: "", one element: that label), and
\* mainButtonLabel = label, response = "".
C2_DropdownJoined ==
    (Encoded /\ IsSet("main_button") /\ opts.main_button.val.tag = "DropdownActions") =>
        LET mb == opts.main_button.val IN
        /\ IsCommaSeparated(dict["actions"], mb.actions)
        /\ Len(mb.actions) = 0 => dict["actions"] = EmptyStr
        /\ Len(mb.actions) = 1 => dict["actions"] = mb.actions[1]
        /\ dict["mainButtonLabel"] = mb.label
        /\ dict["response"] = EmptyStr

\* A dropdown of two options has been encoded.
C2_Witness ==
    /\ Encoded
    /\ opts.main_button =
         Some(DropdownActions(<<"P", "i", "c", "k">>, <<<<"A">>, <<"b", ",", "c">>>>))
    /\ dict["actions"] = <<"A", ",", "b", ",", "c">>

\* C3: the sound field is the caller's sound unchanged when a sound is set and
\* check_sound accepts it, and "_mute" otherwise (absent, or set but unknown);
\* it is never the empty string.
C3_SoundOrMute ==
    Encoded =>
        /\ (IsSet("sound") /\ opts.sound.val \in KnownSounds) =>
                dict["sound"] = opts.sound.val
        /\ ~(IsSet("sound") /\ opts.sound.val \in KnownSounds) =>
                dict["sound"] = MuteStr
        /\ dict["sound"] # EmptyStr

\* An unknown sound name has been encoded.
C3_Witness ==
    /\ Encoded
    /\ opts.sound = Some(<<"N", "o", "p", "e">>)
    /\ dict["sound"] = MuteStr

\* The value a printed decimal denotes: an optional "-", digits, an optional
\* ".5"; anything else denotes no number.
DigitValue(c) == CHOOSE d \in 0..9 : DigitChars[d + 1] = c

RECURSIVE DigitsValue(_)
DigitsValue(ds) ==
    IF Len(ds) = 0 THEN 0
    ELSE 10 * DigitsValue(SubSeq(ds, 1, Len(ds) - 1)) + DigitValue(ds[Len(ds)])

IsDigits(ds) ==
    /\ Len(ds) > 0
    /\ \A i \in 1..Len(ds) : \E d \in 1..10 : DigitChars[d] = ds[i]

DecimalValue(s) ==
    LET neg == Len(s) > 0 /\ s[1] = "-"
        body == IF neg THEN Tail(s) ELSE s
        half == Len(body) > 2 /\ SubSeq(body, Len(body) - 1, Len(body)) = <<".", "5">>
        ds == IF half THEN SubSeq(body, 1, Len(body) - 2) ELSE body
    IN IF IsDigits(ds) THEN Finite(neg, DigitsValue(ds), half) ELSE NaN

\* C4: deliveryDate is the decimal string of the timestamp when delivery_date
\* is present and "" when it is absent; synchronous is "yes" exactly when
\* delivery_date is present with its synchronous component true (so "yes"
\* implies a non-empty deliveryDate, and an absent delivery_date gives "" for
\* both); main_button has no part in it.
C4_DeliveryDate ==
    Encoded =>
        LET dd == opts.delivery_date IN
        /\ dd = None => dict["deliveryDate"] = EmptyStr /\ dict["synchronous"] = EmptyStr
        /\ dd # None =>
            /\ dict["deliveryDate"] # EmptyStr
            /\ dd.val[1].kind = "fin" => DecimalValue(dict["deliveryDate"]) = dd.val[1]
        /\ (dict["synchronous"] = YesStr) <=> (dd # None /\ dd.val[2])
        /\ dict["synchronous"] \in {YesStr, EmptyStr}
        /\ dict["synchronous"] = YesStr => dict["deliveryDate"] # EmptyStr

\* The spec's example, scheduled without waiting and with a main button set.
C4_Witness ==
    /\ Encoded
    /\ opts.delivery_date = Some(<<Finite(FALSE, 1700000000, FALSE), FALSE>>)
    /\ IsSet("main_button")
    /\ dict["deliveryDate"] = <<"1", "7", "0", "0", "0", "0", "0", "0", "0", "0">>
    /\ dict["synchronous"] = EmptyStr

\* C5: options fresh from the constructor encode to a mapping with exactly the
\* ten fixed keys, every value "" except sound, which is "_mute".
C5_DefaultsEncoding ==
    (Encoded /\ calls = NoCalls) =>
        /\ DOMAIN dict =
             {"mainButtonLabel", "actions", "closeButtonLabel", "appIcon",
              "contentImage", "groupID", "response", "deliveryDate",
              "synchronous", "sound"}
        /\ Cardinality(DOMAIN dict) = Len(DictKeys)
        /\ \A k \in DOMAIN dict \ {"sound"} : dict[k] = EmptyStr
        /\ dict["sound"] = MuteStr

\* Options on which no setter was called have been encoded.
C5_Witness ==
    /\ Encoded
    /\ calls = NoCalls
    /\ \A f \in Fields : opts[f] = None
    /\ dict["sound"] = MuteStr

\* C10: after any sequence of setter calls from the constructor, each of the
\* seven fields holds the argument of the latest call of its own setter, or is
\* absent if that setter was never called.
C10_SettersOwnField ==
    /\ DOMAIN opts = Fields
    /\ \A f \in Fields : opts[f] = calls.last[f]

\* A set field was overwritten with another value while others stay absent.
C10_Witness ==
    /\ calls.overwrote
    /\ opts.close_button = Some(<<"x">>)
    /\ opts.sound = Some(EmptyStr)
    /\ opts.group_id = None
    /\ opts.main_button = None

-----------------------------------------------------------------------------
(* SpecDecode: from_dictionary applied to activation dictionaries *)

InitDecode ==
    /\ opts = new
    /\ calls = NoCalls
    /\ dict = NoDict
    /\ pc = "build"
    /\ event \in Events
    /\ response = Pending
    /\ thread = NoThreads
    /\ token = None

Decode ==
    /\ response = Pending
    /\ response' = from_dictionary(event)
    /\ UNCHANGED <<opts, calls, dict, pc, event, thread, token>>

\* The native layer hands back the next activation dictionary.
Receive ==
    /\ response # Pending
    /\ \E e \in Events : event' = e
    /\ response' = Pending
    /\ UNCHANGED <<opts, calls, dict, pc, thread, token>>

NextDecode ==
    \/ Decode
    \/ Receive

SpecDecode == InitDecode /\ [][NextDecode]_vars

KnownActivationTypes == {"actionClicked", "closeClicked", "replied", "contentsClicked"}

HasKnownType(e) ==
    "activationType" \in DOMAIN e /\ e["activationType"] \in KnownActivationTypes

\* The event's activationValue, or the empty string when the key is absent.
ValueOrEmpty(e) == IF "activationValue" \in DOMAIN e THEN e["activationValue"] ELSE EmptyStr

\* C6: for an activationType among the four known values, decode returns
\* ActionButton(v) for "actionClicked", CloseButton(v) for "closeClicked",
\* Reply(v) for "replied", with v the activationValue or "" when it is absent,
\* and Click for "contentsClicked" whatever activationValue is.
C6_DecodeKnownTypes ==
    (response # Pending /\ HasKnownType(event)) =>
        LET ty == event["activationType"]
            v == ValueOrEmpty(event)
        IN /\ ty = "actionClicked" => response = ActionButton(v)
           /\ ty = "closeClicked" => response = CloseButton(v)
           /\ ty = "replied" => response = Reply(v)
           /\ ty = "contentsClicked" => response = Click

\* A close click without an activationValue has been decoded.
C6_Witness ==
    /\ event = MakeEvent(Some("closeClicked"), None, TRUE)
    /\ response = CloseButton(EmptyStr)

\* C7: decoding is total: when activationType is absent or is none of the four
\* known strings the response is None, whatever activationValue holds, and
\* decode yields a response for every event mapping.
C7_DecodeTotal ==
    /\ (response # Pending /\ ~HasKnownType(event)) => response = ResponseNone
    /\ response # Pending =>
          \/ response \in {ResponseNone, Click}
          \/ /\ response.tag \in {"ActionButton", "CloseButton", "Reply"}
             /\ response.val \in ActivationValues
    /\ response = Pending => ENABLED Decode

\* An event with a value but no activationType has been decoded.
C7_Witness ==
    /\ event = MakeEvent(None, Some(YesStr), FALSE)
    /\ response = ResponseNone

-----------------------------------------------------------------------------
(* SpecSend: the delivery contract.  The send function and the native      *)
(* bridge are not part of data.rs; the sequence encode, post, wait,        *)
(* decode, the bridge's rejection and the serialization token follow the   *)
(* design document (sections 4.5 and 5).  What data.rs itself states about *)
(* waiting is the documentation of delivery_date's synchronous parameter.  *)

Threads == 1..NumThreads

\* Options the callers send: with and without a main button, unscheduled,
\* scheduled with synchronous = true and scheduled with synchronous = false.
SendOptions ==
    LET dates == {new} \cup
                 {delivery_date(new, <<Finite(FALSE, 10, TRUE), s>>) : s \in BOOLEAN}
    IN dates \cup {main_button(o, SingleAction(<<"O", "k">>)) : o \in dates}

\* What the bridge reports at the end of a wait: the action button, the close
\* button, or a delivery or dismissal that names no activation type.
SendEvents ==
    {MakeEvent(Some("actionClicked"), Some(<<"O", "k">>), FALSE),
     MakeEvent(Some("closeClicked"), None, FALSE),
     MakeEvent(None, None, TRUE)}

Ok(r) == [tag |-> "Ok", val |-> r]

BridgeRejected == [tag |-> "Err", val |-> "BridgeRejected"]

IdleThread ==
    [pc |-> "idle", opts |-> new, dict |-> NoDict, waited |-> FALSE,
     ev |-> << >>, result |-> None]

\* Mutant of synchronous_wait: the wait also requires a main button.
synchronous_wait_needs_button(o) ==
    /\ o.delivery_date.tag = "Some"
    /\ o.delivery_date.val[2] = TRUE
    /\ o.main_button.tag = "Some"

\* delivery_date's documentation: "The synchronous parameter defines whether or
\* not the notification should wait synchronously until it has been delivered
\* (if no action is set)", and of delivery_date(stamp, true) on options without
\* a main button: "Synchronous is true, this will wait until the user interacts
\* with the notification before returning".
synchronous_wait(o) ==
    /\ o.delivery_date.tag = "Some"
    /\ o.delivery_date.val[2] = TRUE

InitSend ==
    /\ opts = new
    /\ calls = NoCalls
    /\ dict = NoDict
    /\ pc = "build"
    /\ event = << >>
    /\ response = Pending
    /\ thread = [t \in Threads |-> IdleThread]
    /\ token = None

SpecVarsUnchanged == UNCHANGED <<opts, calls, dict, pc, event, response>>

\* send is called: the options are encoded.
SendEncode(t) ==
    /\ thread[t].pc = "idle"
    /\ \E o \in SendOptions :
        thread' = [thread EXCEPT ![t] =
                      [IdleThread EXCEPT !.pc = "encoded", !.opts = o,
                                         !.dict = to_dictionary(o)]]
    /\ UNCHANGED token
    /\ SpecVarsUnchanged

\* Mutant of AcquireToken: the token is taken without looking at its holder.
AcquireToken_unguarded(t) ==
    /\ thread[t].pc = "encoded"
    /\ synchronous_wait(thread[t].opts)
    /\ token' = Some(t)
    /\ thread' = [thread EXCEPT ![t].pc = "holding"]
    /\ SpecVarsUnchanged

\* A send that will wait takes the process-wide token first.
AcquireToken(t) ==
    /\ thread[t].pc = "encoded"
    /\ synchronous_wait(thread[t].opts)
    /\ token = None
    /\ token' = Some(t)
    /\ thread' = [thread EXCEPT ![t].pc = "holding"]
    /\ SpecVarsUnchanged

ReadyToPost(t) ==
    \/ thread[t].pc = "encoded" /\ ~synchronous_wait(thread[t].opts)
    \/ thread[t].pc = "holding"

\* The bridge fails to register or post the notification.
PostRejected(t) ==
    /\ ReadyToPost(t)
    /\ thread' = [thread EXCEPT ![t].pc = "done", ![t].result = BridgeRejected]
    /\ token' = IF token = Some(t) THEN None ELSE token
    /\ SpecVarsUnchanged

\* Fire and forget: the notification is posted and send returns None.
PostAndReturn(t) ==
    /\ ReadyToPost(t)
    /\ ~synchronous_wait(thread[t].opts)
    /\ thread' = [thread EXCEPT ![t].pc = "done", ![t].result = Ok(ResponseNone)]
    /\ UNCHANGED token
    /\ SpecVarsUnchanged

\* The notification is posted and the calling thread parks.
PostAndWait(t) ==
    /\ ReadyToPost(t)
    /\ synchronous_wait(thread[t].opts)
    /\ thread' = [thread EXCEPT ![t].pc = "waiting", ![t].waited = TRUE]
    /\ UNCHANGED token
    /\ SpecVarsUnchanged

\* The bridge's callback publishes the activation dictionary.
Activation(t) ==
    /\ thread[t].pc = "waiting"
    /\ \E e \in SendEvents :
        thread' = [thread EXCEPT ![t].pc = "activated", ![t].ev = e]
    /\ UNCHANGED token
    /\ SpecVarsUnchanged

\* The parked thread wakes, decodes the event, gives the token back, returns.
WakeAndDecode(t) ==
    /\ thread[t].pc = "activated"
    /\ thread' = [thread EXCEPT ![t].pc = "done",
                                ![t].result = Ok(from_dictionary(thread[t].ev))]
    /\ token' = None
    /\ SpecVarsUnchanged

\* The caller has its result; the thread may call send again.
Finish(t) ==
    /\ thread[t].pc = "done"
    /\ thread' = [thread EXCEPT ![t] = IdleThread]
    /\ UNCHANGED token
    /\ SpecVarsUnchanged

NextSend ==
    \E t \in Threads :
        \/ SendEncode(t)
        \/ AcquireToken(t)
        \/ PostRejected(t)
        \/ PostAndReturn(t)
        \/ PostAndWait(t)
        \/ Activation(t)
        \/ WakeAndDecode(t)
        \/ Finish(t)

SpecSend == InitSend /\ [][NextSend]_vars

-----------------------------------------------------------------------------
(* Properties of the delivery contract, checked under SpecSend *)

\* The bridge accepted the post of thread t's current send.
Posted(t) ==
    \/ thread[t].pc \in {"waiting", "activated"}
    \/ thread[t].pc = "done" /\ thread[t].result # BridgeRejected

SynchronousDate(o) == o.delivery_date.tag = "Some" /\ o.delivery_date.val[2]

InWait(t) == thread[t].pc \in {"waiting", "activated"}

\* C9: under any interleaving of concurrent sends at most one synchronous wait
\* is outstanding: a send that needs the wait holds the one process-wide token
\* for the whole wait, and a fire-and-forget send never takes the token and is
\* never delayed by an outstanding wait.
C9_OneWaitOutstanding ==
    /\ Cardinality({t \in Threads : InWait(t)}) <= 1
    /\ \A t \in Threads :
        /\ InWait(t) => token = Some(t)
        /\ token = Some(t) =>
              /\ thread[t].pc \in {"holding", "waiting", "activated"}
              /\ synchronous_wait(thread[t].opts)
        /\ (thread[t].pc = "encoded" /\ ~synchronous_wait(thread[t].opts)) =>
              /\ token # Some(t)
              /\ ENABLED PostAndReturn(t)

\* While one thread is parked with the token, another send that needs the
\* wait has encoded its options and cannot take the token.
C9_Witness ==
    \E t, u \in Threads :
        /\ t # u
        /\ thread[t].pc = "waiting"
        /\ token = Some(t)
        /\ thread[u].pc = "encoded"
        /\ synchronous_wait(thread[u].opts)
        /\ ~ENABLED AcquireToken(u)

====
